---- MODULE Spec2Model ----
(***************************************************************************)
(* Configuration-driven widgets of the input-output model front end: the   *)
(* industry list (heatmap) with its ranking, paginator and download        *)
(* section, and the commodity list of the IO grid.                         *)
(*                                                                         *)
(* Conventions.  A JavaScript value that may be undefined is a sequence of *)
(* length at most one: <<>> is undefined, <<v>> is the value v.  A string  *)
(* that the code splits at ':' (an entry of config.sectors) is the         *)
(* sequence of its parts: "A" is <<"A">>, "A:100" is <<"A", "100">>.       *)
(***************************************************************************)
EXTENDS Integers, Sequences, FiniteSets, TLC

\* ------------------------------------------------------------------ bounds
NumSectors == 3
MaxScore == 1
MaxCount == 2
MaxPage == 3
MaxEntries == 2
MaxTasks == 2

\* ---------------------------------------------------------- optional values
Undef == <<>>
Some(v) == <<v>>
IsDef(x) == x # <<>>
Val(x) == x[1]

\* ------------------------------------------------------------- model data
\* The sectors the model API serves: code and name of the k-th sector.
SectorCodes == <<"A", "B", "C", "D", "E">>
SectorNames == <<"Apple", "Banana", "Banana", "Cherry", "Apple">>
SectorIds == 1..NumSectors
Sector(k) == [id |-> k, code |-> SectorCodes[k], name |-> SectorNames[k]]

\* The indicators the model API serves (code and group index), in API order.
AllIndicators == << [code |-> "JOBS", group |-> 5], [code |-> "ACID", group |-> 1] >>
IndicatorCodes == {"JOBS", "ACID"}
DEFAULT_INDICATORS == <<"ACID", "JOBS">>

\* strings.compare on the names and codes above: their alphabetical order.
AlphaRank(s) ==
    CASE s = "ACID" -> 1
      [] s = "Apple" -> 2
      [] s = "Banana" -> 3
      [] s = "Cherry" -> 4
      [] s = "JOBS" -> 5
      [] OTHER -> 6
compare(s1, s2) == AlphaRank(s1) - AlphaRank(s2)

\* strings.isMember(element, list)
isMember(element, list) == element \in list

\* strings.search(name, term) >= 0: the term occurs in the name.  The search
\* terms of the model are first letters, lower-cased as Header.onSearch does.
SearchTerms == {"b"}
SearchHit(name, term) ==
    \/ term = "a" /\ name = "Apple"
    \/ term = "b" /\ name = "Banana"

\* Array.prototype.slice(from, to) with 0-based, end-exclusive indices
slice(s, from, to) ==
    LET lo == IF from < 0 THEN 0 ELSE from
        hi == IF to > Len(s) THEN Len(s) ELSE to
    IN  IF lo >= hi THEN <<>> ELSE SubSeq(s, lo + 1, hi)

Range(s) == {s[i] : i \in 1..Len(s)}

\* ------------------------------------------------------------------- state
VARIABLES
    modelSectors,   \* model.sectors(): the sector ids in the order the API returns them
    mdata,          \* the result values the API returns: indicator code -> sector id -> value
    config,         \* IndustryList.config
    result,         \* IndustryList.result
    demand,         \* IndustryList.demand
    indicators,     \* IndustryList.indicators
    wsectors,       \* IndustryList.sectors
    sorter,         \* Component's state: the sort indicator
    searchTerm,     \* Component's state: the search term
    rendered,       \* what the last ReactDOM.render of the industry list put on the page
    calcInvoked,    \* whether the last handleUpdate invoked calculate
    emitted,        \* the payload of the fireChange of the last step, if it fired one
    gridConfig,     \* the configuration the commodity list of the IO grid is given
    tasks,          \* the calls of IndustryList.handleUpdate whose awaits are resolved one by one
    naicsAttr,      \* IndustryList._naicsAttr
    dataNaics,      \* the data-naics attribute of the mount element of the industry list
    selector,       \* what the last render of the matrix selector shows
    handed          \* the configuration objects the last step handed to a function, each
                    \* with its fields before and after the call

vars == <<modelSectors, mdata, config, result, demand, indicators, wsectors,
          sorter, searchTerm, rendered, calcInvoked, emitted, gridConfig,
          tasks, naicsAttr, dataNaics, selector, handed>>

\* The configuration of the commodity list before any selection.
GridBaseConfig == [sectors |-> Undef, page |-> Undef, count |-> Undef]

\* ------------------------------------------------------ configurations
\* The fields of a Config that the industry list reads.
Views == {{"ranking"}, {"mosaic"}, {"mosaic", "ranking"}}
Perspectives == {"direct", "final"}
Analyses == {"undefined", "Consumption"}
Years == {Undef, Some(2012)}
Locations == {"undefined", "US-GA"}
IndicatorSelections == {Undef, <<"XXXX">>}
Counts == {Undef, Some(-1)} \cup {Some(n) : n \in 1..MaxCount}
Pages == {Undef, Some(0)} \cup {Some(n) : n \in 1..MaxPage}

BaseConfig ==
    [view |-> {"mosaic"}, perspective |-> "direct", analysis |-> "undefined",
     year |-> Undef, location |-> "undefined", showvalues |-> FALSE,
     indicators |-> Undef, count |-> Undef, page |-> Undef, naics |-> Undef,
     sectors |-> Undef]

\* The configuration {} of the observer when the widget has none yet.
EmptyConfig ==
    [view |-> {}, perspective |-> "undefined", analysis |-> "undefined",
     year |-> Undef, location |-> "undefined", showvalues |-> FALSE,
     indicators |-> Undef, count |-> Undef, page |-> Undef, naics |-> Undef,
     sectors |-> Undef]

\* !config.analysis: the analysis type is undefined or null.
NoAnalysis(a) == a \in {"undefined", "null"}

\* Truthiness of an optional number: undefined and 0 are falsy.
Truthy(x) == IsDef(x) /\ Val(x) # 0

\* --------------------------------------------------------------- model API
\* model.singleRegionSectors(): the sectors in API order.
singleRegionSectors(order) == order

\* model.findDemand(config): the demand id the configuration resolves to.
findDemand(c) == [analysis |-> c.analysis, year |-> c.year, location |-> c.location]

\* model.demand(id): the amount of sector k in the demand vector.
DemandIndex(did) ==
    1 + (IF ~NoAnalysis(did.analysis) THEN 1 ELSE 0)
      + (IF IsDef(did.year) THEN 2 ELSE 0)
      + (IF did.location # "undefined" THEN 4 ELSE 0)
DemandVector(did) == [k \in SectorIds |-> (k * DemandIndex(did)) % 5]

\* ------------------------------------------------------------ IndustryList
\* The calculation-relevant fields of a configuration (needsCalculation, lines 132-139).
CalcFields(c) ==
    [view |-> c.view, perspective |-> c.perspective, analysis |-> c.analysis,
     year |-> c.year, location |-> c.location]

\* calculate(model, config): the result, named by the request that produced it
\* (a plain matrix, or a calculation for a perspective and a demand vector);
\* from records the calculation-relevant fields of the configuration it was
\* computed for.
calculate(c) ==
    IF NoAnalysis(c.analysis)
    THEN [matrix |-> IF c.perspective = "direct" THEN "D" ELSE "U",
          perspective |-> "undefined", demand |-> Undef, from |-> CalcFields(c)]
    ELSE [matrix |-> "calc", perspective |-> c.perspective,
          demand |-> Some(findDemand(c)), from |-> CalcFields(c)]

\* A faulty variant of needsCalculation: every update of a mosaic view calculates.
needsCalculationAlways(oldConfig, hasResult, newConfig) ==
    isMember("mosaic", newConfig.view)

\* IndustryList.needsCalculation(oldConfig, newConfig)
needsCalculation(oldConfig, hasResult, newConfig) ==
    IF ~isMember("mosaic", newConfig.view) THEN FALSE
    ELSE IF oldConfig = Undef \/ ~hasResult THEN TRUE
    ELSE \/ Val(oldConfig).view # newConfig.view
         \/ Val(oldConfig).perspective # newConfig.perspective
         \/ Val(oldConfig).analysis # newConfig.analysis
         \/ Val(oldConfig).year # newConfig.year
         \/ Val(oldConfig).location # newConfig.location

\* handleUpdate, lines 99-113: the demand values aggregated by sector code over
\* model.sectors(); a code without a non-zero amount gets no entry (0 here).
NoDemandEntries == [code \in {Sector(k).code : k \in SectorIds} |-> 0]
RECURSIVE AggregateDemand(_, _, _)
AggregateDemand(values, order, acc) ==
    IF order = <<>> THEN acc
    ELSE LET sector == Sector(Head(order))
             val == values[sector.id]
         IN  AggregateDemand(values, Tail(order),
                 IF val = 0 THEN acc
                 ELSE [acc EXCEPT ![sector.code] = @ + val])

\* syncIndicators, lines 168-175: the comparator of the indicator sort.
IndicatorOrder(i1, i2) ==
    IF i1.group = i2.group THEN compare(i1.code, i2.code) ELSE i1.group - i2.group

\* A faulty variant of RankingOrder: ties are broken in reverse alphabetical order.
RankingOrderTiesReversed(r1, r2) ==
    IF r1.rank = r2.rank
    THEN compare(r2.sector.name, r1.sector.name)
    ELSE r2.rank - r1.rank

\* A faulty variant of RankingOrder: ties are left in the order of the input.
RankingOrderNoTieBreak(r1, r2) == r2.rank - r1.rank

\* Component, lines 223-226: the comparator of the ranking sort.
RankingOrder(r1, r2) ==
    IF r1.rank = r2.rank
    THEN compare(r1.sector.name, r2.sector.name)
    ELSE r2.rank - r1.rank

\* The comparator a sort call passes: "ranking" or "indicators".
Comparator(which, a, b) ==
    IF which = "ranking" THEN RankingOrder(a, b) ELSE IndicatorOrder(a, b)

\* Array.prototype.sort with a comparator that is a total preorder: a stable
\* insertion sort.  InsertBy puts x behind every element that does not come
\* after it.
RECURSIVE InsertBy(_, _, _)
InsertBy(x, sorted, which) ==
    IF sorted = <<>> THEN <<x>>
    ELSE IF Comparator(which, Head(sorted), x) <= 0
         THEN <<Head(sorted)>> \o InsertBy(x, Tail(sorted), which)
         ELSE <<x>> \o sorted
RECURSIVE SortBy(_, _, _)
SortBy(todo, sorted, which) ==
    IF todo = <<>> THEN sorted
    ELSE SortBy(Tail(todo), InsertBy(Head(todo), sorted, which), which)

\* IndustryList.syncIndicators(config)
syncIndicators(c) ==
    IF ~isMember("mosaic", c.view) THEN <<>>
    ELSE LET codes == IF c.indicators = Undef \/ Len(c.indicators) = 0
                      THEN DEFAULT_INDICATORS ELSE c.indicators
             selected == SelectSeq(AllIndicators, LAMBDA i : i.code \in Range(codes))
         IN  IF Len(selected) <= 1 THEN selected
             ELSE SortBy(selected, <<>>, "indicators")

\* The values a result holds: the plain matrices D and U and the calculated
\* results differ, so the value the API data gives is scaled by the request.
ResultScale(res) ==
    CASE res.matrix = "D" -> 1
      [] res.matrix = "U" -> 2
      [] OTHER -> 2 + DemandIndex(Val(res.demand))
                    + (IF res.perspective = "final" THEN 8 ELSE 0)

\* HeatmapResult.getRanking(indicators): each sector of the result with its
\* score, 0 without indicators, else the values of the indicators added up.
RECURSIVE SumValues(_, _, _)
SumValues(inds, k, data) ==
    IF inds = <<>> THEN 0
    ELSE data[Head(inds).code][k] + SumValues(Tail(inds), k, data)
getRanking(res, order, inds, data) ==
    [i \in 1..Len(order) |-> [sector |-> Sector(order[i]),
                              rank |-> ResultScale(res) * SumValues(inds, order[i], data)]]

\* A faulty variant of selectPage: the offset of a page is taken one page too far.
selectPageOffByOne(ranking, c) ==
    IF Truthy(c.count) /\ Val(c.count) >= 0
    THEN IF IsDef(c.page) /\ Val(c.page) <= 1
         THEN slice(ranking, 0, Val(c.count))
         ELSE LET offset == IF IsDef(c.page) THEN Val(c.page) * Val(c.count)
                            ELSE Len(ranking)
              IN  IF offset < Len(ranking)
                  THEN slice(ranking, offset, offset + Val(c.count))
                  ELSE slice(ranking, 0, Val(c.count))
    ELSE ranking

\* Component, lines 228-240: the page of the sorted ranking that is shown.
selectPage(ranking, c) ==
    IF Truthy(c.count) /\ Val(c.count) >= 0
    THEN IF IsDef(c.page) /\ Val(c.page) <= 1
         THEN slice(ranking, 0, Val(c.count))
         ELSE LET offset == IF IsDef(c.page) THEN (Val(c.page) - 1) * Val(c.count)
                            ELSE Len(ranking)   \* NaN < length is false
              IN  IF offset < Len(ranking)
                  THEN slice(ranking, offset, offset + Val(c.count))
                  ELSE slice(ranking, 0, Val(c.count))
    ELSE ranking

\* Component, lines 215-226: the ranking, search-filtered and sorted.
sortedRanking(res, wsec, inds, srt, term, order, data) ==
    LET ranking == IF res # Undef
                   THEN getRanking(Val(res), order, IF srt # Undef THEN <<Val(srt)>> ELSE Val(inds), data)
                   ELSE [i \in 1..Len(Val(wsec)) |-> [sector |-> Sector(Val(wsec)[i]), rank |-> 0]]
        found == IF term # Undef
                 THEN SelectSeq(ranking, LAMBDA r : SearchHit(r.sector.name, Val(term)))
                 ELSE ranking
    IN  SortBy(found, <<>>, "ranking")

\* Row, lines 448-461: the demand cell of a sector, <<>> when it is blank.
demandCell(c, dem, sector) ==
    IF c.showvalues /\ dem # Undef /\ Val(dem)[sector.code] # 0
    THEN Some(Val(dem)[sector.code]) ELSE Undef

\* Row: what a row shows of its sector.
Row(c, dem, r) ==
    [code |-> r.sector.code, name |-> r.sector.name, rank |-> r.rank,
     demand |-> demandCell(c, dem, r.sector)]

\* Paginator, lines 675-693: the page size, the page count and the current page.
paginatorCount(total, c) ==
    LET count == IF Truthy(c.count) THEN Val(c.count) ELSE -1
    IN  IF count > total THEN total ELSE count
paginatorPageCount(total, c) ==
    LET count == paginatorCount(total, c)
    IN  IF count > 0 THEN (total + count - 1) \div count ELSE 0
\* A faulty variant of paginatorPage: a page past the last one is left as it is.
paginatorPageNoClamp(total, c) ==
    LET page0 == IF Truthy(c.page) THEN Val(c.page) ELSE 1
    IN  IF page0 <= 0 THEN 1 ELSE page0

paginatorPage(total, c) ==
    LET pageCount == paginatorPageCount(total, c)
        page0 == IF Truthy(c.page) THEN Val(c.page) ELSE 1
        page1 == IF page0 <= 0 THEN 1 ELSE page0
    IN  IF page1 > pageCount THEN pageCount ELSE page1

\* Header, lines 307-308: the total the paginator is given.
headerTotal(res, wsec, order) ==
    IF res # Undef THEN Len(order) ELSE Len(Val(wsec))

\* ReactDOM.render(<Component widget={this} />): what the component shows.  A row
\* reads this.demand[sector.code] when showvalues is set (line 453), which raises
\* a TypeError when no demand is held: the render fails and shows no row.
Render(c, res, wsec, inds, dem, srt, term, order, data) ==
    LET sorted == sortedRanking(res, wsec, inds, srt, term, order, data)
        shown == selectPage(sorted, c)
        total == headerTotal(res, wsec, order)
        failed == c.showvalues /\ dem = Undef /\ Len(shown) > 0
    IN  [rows |-> IF failed THEN <<>>
                  ELSE [i \in 1..Len(shown) |-> Row(c, dem, shown[i])],
         page |-> paginatorPage(total, c),
         pageCount |-> paginatorPageCount(total, c),
         failed |-> failed]

\* The data-naics attribute is undefined (no attribute) or the sequence of the
\* parts that split(",") gives its text; the empty text is the single part "".
NaicsParts == {"11", " 11", "22 "}
trim(part) ==
    CASE part = " 11" -> "11"
      [] part = "22 " -> "22"
      [] OTHER -> part
AttrTruthy(attr) == attr # Undef /\ Val(attr) # <<"">>
splitTrim(attr) == [i \in 1..Len(Val(attr)) |-> trim(Val(attr)[i])]

\* A configuration object: its fields, and whether it is a new object or the
\* object the caller handed in.
\* A faulty variant of spread: no copy is made, the callee works on the caller's object.
alias(c) == [fields |-> c, fresh |-> FALSE]
\* { ...c }: a new object with the fields of c.
spread(c) == [fields |-> c, fresh |-> TRUE]
setField(obj, f, v) == [obj EXCEPT !.fields[f] = v]
\* The object the caller handed in after the callee has written to obj.
argumentAfter(c, obj) == IF obj.fresh THEN c ELSE obj.fields
\* The object with the fields c that was handed to a function which worked on obj.
Handed(c, obj) == [before |-> c, after |-> argumentAfter(c, obj)]

\* handleUpdate, lines 78-83: this.config, a copy of the configuration that takes
\* the codes of the initial data-naics attribute when it has no naics.
ownConfig(c, attr) ==
    LET own == spread(c)
    IN  IF own.fields.naics = Undef /\ AttrTruthy(attr)
        THEN setField(own, "naics", Some(splitTrim(attr)))
        ELSE own

\* A call of handleUpdate: where it waits, its argument, and its locals.
TaskIds == 1..MaxTasks
IdleTask == [pc |-> "idle", config |-> Undef, needsCalc |-> FALSE, values |-> Undef]

\* IndustryList.handleUpdate(config), its awaits resolved in order.
handleUpdateBody(c) ==
    LET needsCalc == needsCalculation(config, result # Undef, c)
        result1 == IF needsCalc THEN Some(calculate(c)) ELSE result
        wsectors1 == IF result1 = Undef
                     THEN Some(singleRegionSectors(modelSectors)) ELSE wsectors
        demand1 == IF c.showvalues /\ (demand = Undef \/ needsCalc)
                   THEN Some(AggregateDemand(DemandVector(findDemand(c)),
                                             modelSectors, NoDemandEntries))
                   ELSE demand
        indicators1 == Some(syncIndicators(c))
    IN  /\ config' = Some(ownConfig(c, naicsAttr).fields)
        /\ calcInvoked' = needsCalc
        /\ result' = result1
        /\ wsectors' = wsectors1
        /\ demand' = demand1
        /\ indicators' = indicators1
        /\ rendered' = Some(Render(ownConfig(c, naicsAttr).fields, result1, wsectors1,
                                   indicators1, demand1,
                                   sorter, searchTerm, modelSectors, mdata))
        /\ UNCHANGED <<modelSectors, mdata, sorter, searchTerm, gridConfig,
                       tasks, naicsAttr, selector>>

\* handleUpdate(config), called with a configuration object of the caller.
handleUpdate(c) ==
    /\ handleUpdateBody(c)
    /\ handed' = <<Handed(c, ownConfig(c, naicsAttr))>>
    /\ UNCHANGED dataNaics

\* Widget.update(config): a configuration arrives from the page.
Update(c) ==
    /\ handleUpdate(c)
    /\ emitted' = Undef

\* Widget.fireChange(change) of the industry list: the change is emitted, the
\* page merges it into the configuration and applies the result.
\* handler names the event handler that fired the change, target the commodity
\* it was fired for and whether that commodity was shown selected.
NoChange ==
    [widget |-> "industry-list", handler |-> "", target |-> Undef,
     page |-> Undef, count |-> Undef, sectors |-> Undef, config |-> Undef]
Merge(c, change) ==
    [c EXCEPT !.page = IF change.page # Undef THEN change.page ELSE @,
              !.count = IF change.count # Undef THEN change.count ELSE @,
              !.sectors = IF change.sectors # Undef THEN change.sectors ELSE @]
fireChange(change) ==
    /\ emitted' = Some(change)
    /\ handleUpdate(Merge(Val(config), change))

\* Paginator, lines 695-749: the pages its links go to (Previous, the numbered
\* entries other than the current page, Next).
PaginatorTargets(page, pageCount) ==
    LET start == IF page > 3 THEN page - 2 ELSE 1
        end == IF start + 4 > pageCount THEN pageCount ELSE start + 4
    IN  (IF page > 1 THEN {page - 1} ELSE {})
        \cup ((start..end) \ {page})
        \cup (IF page < pageCount THEN {page + 1} ELSE {})

\* Paginator, goTo(nextPage): a click on a page link.
PaginatorGoTo ==
    /\ rendered # Undef
    /\ \E p \in PaginatorTargets(Val(rendered).page, Val(rendered).pageCount) :
          fireChange([NoChange EXCEPT !.handler = "goTo", !.page = Some(p)])

\* Paginator, lines 768-787: the page sizes of the counter select (All, and the
\* sizes on offer, scaled to the sectors of the model) and a change of it.
CounterOptions == {-1} \cup (1..MaxCount)
PaginatorCounter ==
    /\ rendered # Undef
    /\ \E c \in CounterOptions :
          /\ c # paginatorCount(headerTotal(result, wsectors, modelSectors), Val(config))
          /\ fireChange([NoChange EXCEPT !.handler = "counter", !.count = Some(c)])

\* Header.onSearch(value), lines 310-317, and setSearchTerm: the component
\* renders again with the new term.
Search ==
    /\ rendered # Undef
    /\ \E term \in {Undef} \cup {Some(t) : t \in SearchTerms} :
          /\ searchTerm' = term
          /\ rendered' = Some(Render(Val(config), result, wsectors, indicators, demand,
                                     sorter, term, modelSectors, mdata))
    /\ emitted' = Undef
    /\ UNCHANGED <<modelSectors, mdata, config, result, demand, indicators, wsectors,
                   sorter, calcInvoked, gridConfig,
                   tasks, naicsAttr, dataNaics, selector, handed>>

\* ------------------------------------------------------------ lifecycle
\* The configurations of the lifecycle specification: every calculation-relevant
\* field and the display-only fields showvalues and indicators vary.
CalcConfigs ==
    {[BaseConfig EXCEPT !.view = v, !.perspective = p, !.analysis = a, !.year = y,
                        !.location = l, !.showvalues = s, !.indicators = i] :
        v \in Views, p \in Perspectives, a \in Analyses, y \in Years,
        l \in Locations, s \in BOOLEAN, i \in IndicatorSelections}

FixedData == [code \in IndicatorCodes |-> [k \in SectorIds |-> k % (MaxScore + 1)]]

\* The widget after its construction, before the first update.
Constructed ==
    /\ config = Undef
    /\ result = Undef
    /\ demand = Undef
    /\ indicators = Undef
    /\ wsectors = Undef
    /\ sorter = Undef
    /\ searchTerm = Undef
    /\ rendered = Undef
    /\ calcInvoked = FALSE
    /\ emitted = Undef
    /\ tasks = [t \in TaskIds |-> IdleTask]
    /\ naicsAttr = dataNaics
    /\ selector = Undef
    /\ handed = <<>>

Init ==
    /\ modelSectors = [k \in SectorIds |-> k]
    /\ mdata = FixedData
    /\ gridConfig = GridBaseConfig
    /\ dataNaics = Undef
    /\ Constructed

\* The values a field takes in the lifecycle specification.
CalcFieldValues(f) ==
    CASE f = "view" -> Views
      [] f = "perspective" -> Perspectives
      [] f = "analysis" -> Analyses
      [] f = "year" -> Years
      [] f = "location" -> Locations
      [] f = "showvalues" -> BOOLEAN
      [] f = "indicators" -> IndicatorSelections

\* The first configuration is any configuration; a later one is the current
\* one with one field set by the page.
FirstUpdate == config = Undef /\ \E c \in CalcConfigs : Update(c)
FieldUpdate ==
    /\ config # Undef
    /\ \E f \in {"view", "perspective", "analysis", "year", "location",
                  "showvalues", "indicators"} :
          \E v \in CalcFieldValues(f) : Update([Val(config) EXCEPT ![f] = v])

Next == FirstUpdate \/ FieldUpdate

Spec == Init /\ [][Next]_vars

\* ------------------------------------------------------------- download
\* DownloadSection.onDownload("CSV"), lines 601-612: the columns of the header line.
RECURSIVE indicatorColumns(_)
indicatorColumns(inds) ==
    IF inds = <<>> THEN <<>>
    ELSE <<Head(inds).code>> \o indicatorColumns(Tail(inds))
csvHeader(res, inds, dem) ==
    <<"sector code", "sector name">>
    \o (IF dem # Undef THEN <<"demand">> ELSE <<>>)
    \o (IF res # Undef /\ inds # Undef
        THEN indicatorColumns(Val(inds)) \o <<"ranking">> ELSE <<>>)

\* ------------------------------------------------- lifecycle properties
\* What a widget renders whose only update so far was c.
FreshRender(c) ==
    LET needsCalc == needsCalculation(Undef, FALSE, c)
        res == IF needsCalc THEN Some(calculate(c)) ELSE Undef
        wsec == IF res = Undef THEN Some(singleRegionSectors(modelSectors)) ELSE Undef
        dem == IF c.showvalues
               THEN Some(AggregateDemand(DemandVector(findDemand(c)),
                                         modelSectors, NoDemandEntries))
               ELSE Undef
    IN  Render(c, res, wsec, Some(syncIndicators(c)), dem, Undef, Undef,
               modelSectors, mdata)

C7_HeaderColumns ==
    rendered # Undef =>
        LET indicatorCount == Len(Val(indicators))
        IN  Len(csvHeader(result, indicators, demand))
              = 2 + (IF demand # Undef THEN 1 ELSE 0) + indicatorCount
                  + (IF indicatorCount > 0 THEN 1 ELSE 0)

\* C9 (as claimed): the rendered rows are the rows a widget renders that has seen
\* only the current configuration, whatever updates came before.
C9_RowsPureInConfig ==
    (rendered # Undef /\ sorter = Undef /\ searchTerm = Undef)
        => Val(rendered).rows = FreshRender(Val(config)).rows

\* C10 (as claimed): a held result that is rendered was computed from a
\* configuration that agrees with the current one on the calculation-relevant fields.
C10_ResultMatchesConfig ==
    (rendered # Undef /\ result # Undef)
        => Val(result).from = CalcFields(Val(config))
\* --------------------------------------------------- ranking and paging
\* All orders in which the API may return the sectors.
SectorOrders ==
    {o \in [SectorIds -> SectorIds] : \A i, j \in SectorIds : i # j => o[i] # o[j]}

\* The ranking specification: the API returns the sectors in any order and the
\* indicator ACID with any values; the view is with or without a result.
RankConfigs ==
    {[BaseConfig EXCEPT !.view = v, !.indicators = <<"ACID">>, !.count = n] :
        v \in {{"ranking"}, {"mosaic", "ranking"}}, n \in {Undef, Some(MaxCount)}}

InitRank ==
    /\ modelSectors \in SectorOrders
    /\ mdata \in {[FixedData EXCEPT !["ACID"] = f] : f \in [SectorIds -> 0..MaxScore]}
    /\ gridConfig = GridBaseConfig
    /\ dataNaics = Undef
    /\ Constructed

RankUpdate == \E c \in RankConfigs : Update(c)

NextRank == RankUpdate \/ Search

SpecRank == InitRank /\ [][NextRank]_vars

\* The paging specification: the page and the page size vary, by updates from
\* the page and by the links and the counter of the paginator.
PageConfigs ==
    {[BaseConfig EXCEPT !.view = v, !.indicators = <<"ACID">>, !.count = n, !.page = p] :
        v \in {{"ranking"}, {"mosaic", "ranking"}}, n \in Counts, p \in Pages}

InitPage ==
    /\ modelSectors \in SectorOrders
    /\ mdata = FixedData
    /\ gridConfig = GridBaseConfig
    /\ dataNaics = Undef
    /\ Constructed

PageUpdate == \E c \in PageConfigs : Update(c)

NextPage == PageUpdate \/ PaginatorGoTo \/ PaginatorCounter \/ Search

SpecPage == InitPage /\ [][NextPage]_vars
\* ------------------------------------------ ranking and paging properties
\* The ranking of the current state, search-filtered and sorted, before paging.
CurrentRanking ==
    sortedRanking(result, wsectors, indicators, sorter, searchTerm, modelSectors, mdata)

\* The elements at positions [(P-1)*N, P*N) of a ranking, truncated at its end.
PageRows(ranking, P, N) ==
    LET left == Len(ranking) - (P - 1) * N
        n == IF left < 0 THEN 0 ELSE IF left > N THEN N ELSE left
    IN  [i \in 1..n |-> ranking[(P - 1) * N + i]]

\* The rows that show the given elements of the ranking.
RowsOf(elements) ==
    [i \in 1..Len(elements) |-> Row(Val(config), demand, elements[i])]

\* A configuration with a page size N > 0 and a page P >= 1.
Paged ==
    /\ rendered # Undef
    /\ IsDef(Val(config).count) /\ Val(Val(config).count) > 0
    /\ IsDef(Val(config).page) /\ Val(Val(config).page) >= 1

\* The offset of the configured page lies before the end of the ranking.
PageInRange ==
    (Val(Val(config).page) - 1) * Val(Val(config).count) < Len(CurrentRanking)

C2_OutOfRangeClampsToLast ==
    (Paged /\ ~PageInRange /\ Len(CurrentRanking) > 0)
        => LET N == Val(Val(config).count)
               last == (Len(CurrentRanking) + N - 1) \div N
           IN  /\ Val(rendered).rows = RowsOf(PageRows(CurrentRanking, last, N))
               /\ Val(rendered).rows
                    = RowsOf(PageRows(CurrentRanking, Val(rendered).page, N))

\* C3 (as claimed): a change event that changes the page size (its count differs
\* from the count of the configuration it was fired under) sets page to 1.
C3_PageSizeChangeResetsPage ==
    [][(/\ emitted' # Undef
        /\ config # Undef
        /\ Val(emitted').widget = "industry-list"
        /\ IsDef(Val(emitted').count)
        /\ Val(emitted').count # Val(config).count)
       => Val(emitted').page = Some(1)]_vars

\* C5: the rendered rows are in descending order of their scores, and rows of
\* equal score are in alphabetical order of their names.
C5_RowsOrdered ==
    rendered # Undef =>
        \A i, j \in 1..Len(Val(rendered).rows) :
            i < j =>
                LET r1 == Val(rendered).rows[i]
                    r2 == Val(rendered).rows[j]
                IN  \/ r1.rank > r2.rank
                    \/ r1.rank = r2.rank /\ AlphaRank(r1.name) <= AlphaRank(r2.name)

\* The position of the sector with a code in the order of the API.
ApiPosition(code) ==
    CHOOSE i \in 1..Len(modelSectors) : Sector(modelSectors[i]).code = code

\* C5 witness: a result is ranked, rows of different and of equal scores are
\* shown, and two rows of equal score came from the API in the opposite order.
C5_Witness ==
    /\ rendered # Undef /\ result # Undef
    /\ \E i, j \in 1..Len(Val(rendered).rows) :
          Val(rendered).rows[i].rank > Val(rendered).rows[j].rank
    /\ \E i, j \in 1..Len(Val(rendered).rows) :
          /\ i < j
          /\ Val(rendered).rows[i].rank = Val(rendered).rows[j].rank
          /\ Val(rendered).rows[i].name # Val(rendered).rows[j].name
          /\ ApiPosition(Val(rendered).rows[j].code)
                < ApiPosition(Val(rendered).rows[i].code)

\* C6: without a result every sector is ranked with score 0 and the rows are in
\* alphabetical order of the sector names, whatever order the API returned; every
\* sector has its row when no page or search cuts the list, the first an Apple.
C6_NoResultAlphabetical ==
    (rendered # Undef /\ result = Undef) =>
        /\ \A i \in 1..Len(Val(rendered).rows) : Val(rendered).rows[i].rank = 0
        /\ \A i, j \in 1..Len(Val(rendered).rows) :
              i < j => AlphaRank(Val(rendered).rows[i].name)
                         <= AlphaRank(Val(rendered).rows[j].name)
        /\ (searchTerm = Undef /\ Val(config).count = Undef) =>
              /\ {Val(rendered).rows[i].code : i \in 1..Len(Val(rendered).rows)}
                    = {Sector(k).code : k \in SectorIds}
              /\ Len(Val(rendered).rows) = NumSectors
              /\ Val(rendered).rows[1].name = "Apple"

\* C6 witness: no result is held, the API returned a Banana before an Apple, and
\* the whole list is shown.
C6_Witness ==
    /\ rendered # Undef /\ result = Undef
    /\ searchTerm = Undef /\ Val(config).count = Undef
    /\ Sector(modelSectors[1]).name = "Banana"
    /\ Val(rendered).rows[1].name = "Apple"
    /\ Val(rendered).rows[2].name = "Banana"
\* ------------------------------------------------- commodity list (IO grid)
\* parseInt(text) of the scale texts of the model, and the text a template string
\* gives a number.  NaN is a number that no scale takes.
NaN == 0 - 1
SliderMin == 0
SliderMax == 500
DefaultScale == 100
parseInt(text) ==
    CASE text = "0" -> 0
      [] text = "50" -> 50
      [] text = "50%" -> 50
      [] text = "100" -> 100
      [] text = "500" -> 500
      [] text = "900" -> 900
      [] OTHER -> NaN
NumText(n) ==
    CASE n = 0 -> "0"
      [] n = 50 -> "50"
      [] n = 100 -> "100"
      [] n = 500 -> "500"
      [] n = 900 -> "900"
      [] OTHER -> "NaN"

\* The selection map (sector code -> factor) as the list of its entries in the
\* order of their insertion, which is the order of Object.keys.
Keys(selection) == {selection[i].code : i \in 1..Len(selection)}
Lookup(selection, code) ==
    IF code \in Keys(selection)
    THEN Some((CHOOSE i \in 1..Len(selection) : selection[i].code = code))
    ELSE Undef
\* A faulty variant of Put: an entry is added even when the code has one already.
PutAlwaysAppends(selection, code, value) ==
    Append(selection, [code |-> code, value |-> value])
Put(selection, code, value) ==
    IF code \in Keys(selection)
    THEN [i \in 1..Len(selection) |->
            IF selection[i].code = code THEN [code |-> code, value |-> value]
            ELSE selection[i]]
    ELSE Append(selection, [code |-> code, value |-> value])
Delete(selection, code) == SelectSeq(selection, LAMBDA e : e.code # code)
ValueOf(selection, code) == selection[Val(Lookup(selection, code))].value

\* CommodityList, lines 55-66: the selection collected from config.sectors.
RECURSIVE collect(_, _)
collect(entries, numMap) ==
    IF entries = <<>> THEN numMap
    ELSE LET parts == Head(entries)
         IN  collect(Tail(entries),
                     IF Len(parts) < 2
                     THEN Put(numMap, parts[1], DefaultScale)
                     ELSE Put(numMap, parts[1], parseInt(parts[2])))
selectionOf(c) == IF c.sectors = Undef THEN <<>> ELSE collect(Val(c.sectors), <<>>)

\* fireSelectionChange, lines 70-77: the sectors list of a selection, code:factor
\* for every code that is not empty.
RECURSIVE sectorsOf(_)
sectorsOf(selection) ==
    IF selection = <<>> THEN <<>>
    ELSE (IF Head(selection).code # ""
          THEN << <<Head(selection).code, NumText(Head(selection).value)>> >>
          ELSE <<>>)
         \o sectorsOf(Tail(selection))

\* CommodityList, lines 87-97: the commodity of a sector.
Commodity(c, k) ==
    LET selection == selectionOf(c)
        code == Sector(k).code
    IN  [code |-> code,
         selected |-> code \in Keys(selection),
         value |-> IF code \in Keys(selection) THEN ValueOf(selection, code)
                   ELSE DefaultScale]

\* IOGrid.fireChange(change): the change is emitted and the page merges it into
\* the configuration of the grid.
GridNoChange ==
    [widget |-> "iogrid", handler |-> "", target |-> Undef,
     page |-> Undef, count |-> Undef, sectors |-> Undef, config |-> Undef]
gridFireChange(change) ==
    /\ emitted' = Some(change)
    /\ gridConfig' =
          [sectors |-> IF change.sectors # Undef THEN change.sectors ELSE gridConfig.sectors,
           page |-> IF change.page # Undef THEN change.page ELSE gridConfig.page,
           count |-> IF change.count # Undef THEN change.count ELSE gridConfig.count]
    /\ UNCHANGED <<modelSectors, mdata, config, result, demand, indicators, wsectors,
                   sorter, searchTerm, rendered, calcInvoked,
                   tasks, naicsAttr, dataNaics, selector, handed>>

\* A faulty variant of checkboxClicked: a click on an unselected commodity sets no default
\* factor but the lowest one.
checkboxClickedLowest(selection, commodity) ==
    IF commodity.selected THEN Delete(selection, commodity.code)
    ELSE Put(selection, commodity.code, SliderMin)

\* CommodityList, lines 116-123: the selection after a click on the checkbox.
checkboxClicked(selection, commodity) ==
    IF commodity.selected THEN Delete(selection, commodity.code)
    ELSE Put(selection, commodity.code, DefaultScale)

\* A click on the checkbox of the commodity of sector k.
GridToggle(k) ==
    gridFireChange([GridNoChange EXCEPT
        !.handler = "checkbox",
        !.target = Some([code |-> Sector(k).code,
                         selected |-> Commodity(gridConfig, k).selected]),
        !.sectors = Some(sectorsOf(checkboxClicked(selectionOf(gridConfig),
                                                   Commodity(gridConfig, k))))])

\* CommodityList, lines 156-165: the slider of a selected commodity is moved.
SliderValues == {SliderMin, SliderMax}
GridSlider(k) ==
    /\ Commodity(gridConfig, k).selected
    /\ \E value \in SliderValues :
          gridFireChange([GridNoChange EXCEPT
              !.handler = "slider",
              !.target = Some([code |-> Sector(k).code, selected |-> TRUE]),
              !.sectors = Some(sectorsOf(Put(selectionOf(gridConfig),
                                             Sector(k).code, value)))])

\* onSliderClicked, lines 228-239: a click on the slider cell of the commodity of
\* sector k selects the commodity with the factor it shows; nothing happens when
\* it is selected already.
GridSliderClicked(k) ==
    LET commodity == Commodity(gridConfig, k)
    IN  IF commodity.selected
        THEN /\ emitted' = Undef
             /\ UNCHANGED <<modelSectors, mdata, config, result, demand, indicators,
                            wsectors, sorter, searchTerm, rendered, calcInvoked,
                            gridConfig, tasks, naicsAttr, dataNaics, selector, handed>>
        ELSE gridFireChange([GridNoChange EXCEPT
                 !.handler = "sliderCell",
                 !.target = Some([code |-> commodity.code, selected |-> FALSE]),
                 !.sectors = Some(sectorsOf(Put(selectionOf(gridConfig),
                                                commodity.code, commodity.value)))])

\* onPageChange, lines 198-224: the data grid reports a page and a page size
\* (or nothing).
GridDefaultPage == 1
GridDefaultCount == 10
GridPageSizes == {10, 20}
GridPages == {1, 2}
\* A faulty variant of onPageChange: a report of the current page and page size is
\* emitted like any other.
onPageChangeAlways(c, p) ==
    LET currentSize == IF Truthy(c.count) THEN Val(c.count) ELSE GridDefaultCount
    IN  IF p = Undef THEN Undef
        ELSE Some([GridNoChange EXCEPT
                      !.handler = "onPageChange",
                      !.page = Some(IF Val(p).pageSize # currentSize THEN 1 ELSE Val(p).page),
                      !.count = Some(Val(p).pageSize)])
onPageChange(c, p) ==
    LET currentPage == IF Truthy(c.page) THEN Val(c.page) ELSE GridDefaultPage
        currentSize == IF Truthy(c.count) THEN Val(c.count) ELSE GridDefaultCount
    IN  IF p = Undef THEN Undef
        ELSE IF Val(p).page = currentPage /\ Val(p).pageSize = currentSize THEN Undef
        ELSE IF Val(p).pageSize # currentSize
             THEN Some([GridNoChange EXCEPT !.handler = "onPageChange", !.page = Some(1),
                                            !.count = Some(Val(p).pageSize)])
             ELSE Some([GridNoChange EXCEPT !.handler = "onPageChange",
                                            !.page = Some(Val(p).page),
                                            !.count = Some(Val(p).pageSize)])
GridPageParams ==
    {Undef} \cup {Some([page |-> n, pageSize |-> z]) : n \in GridPages, z \in GridPageSizes}
GridPageChange ==
    \E p \in GridPageParams :
        IF onPageChange(gridConfig, p) = Undef
        THEN /\ emitted' = Undef
             /\ UNCHANGED <<modelSectors, mdata, config, result, demand, indicators,
                            wsectors, sorter, searchTerm, rendered, calcInvoked,
                            gridConfig, tasks, naicsAttr, dataNaics, selector, handed>>
        ELSE gridFireChange(Val(onPageChange(gridConfig, p)))

\* The configurations the grid starts with: sectors lists of up to MaxEntries
\* entries, with and without a factor, no entry twice (a code may be there twice,
\* with different factors).
GridEntries ==
    { <<"A">>, <<"A", "50">>, <<"B", "abc">>, <<"B", "50%">>, <<"C", "900">>, <<"">> }
GridSectorLists ==
    {Undef} \cup {Some(l) : l \in {m \in UNION {[1..n -> GridEntries] : n \in 0..MaxEntries} :
                                      \A i, j \in 1..Len(m) : m[i] = m[j] => i = j}}

InitGrid ==
    /\ modelSectors = [k \in SectorIds |-> k]
    /\ mdata = FixedData
    /\ gridConfig \in {[GridBaseConfig EXCEPT !.sectors = l] : l \in GridSectorLists}
    /\ dataNaics = Undef
    /\ Constructed

NextGrid ==
    \/ \E k \in SectorIds : GridToggle(k)
    \/ \E k \in SectorIds : GridSlider(k)
    \/ \E k \in SectorIds : GridSliderClicked(k)
    \/ GridPageChange

SpecGrid == InitGrid /\ [][NextGrid]_vars
\* ------------------------------------------------ commodity list properties
\* The entries of a sectors list (none for an undefined list).
EntriesOf(sectors) == IF sectors = Undef THEN {} ELSE Range(Val(sectors))

\* What a sectors list selects: the pairs of a non-empty code and the factor the
\* commodity list reads for it.
SelectionPairs(sectors) ==
    IF sectors = Undef THEN {}
    ELSE {<<e.code, e.value>> : e \in {x \in Range(collect(Val(sectors), <<>>)) : x.code # ""}}

\* The sectors lists prev and out select the same factors for the codes other
\* than code.
OthersKept(prev, code, out) ==
    {p \in SelectionPairs(prev) : p[1] # code} = {p \in SelectionPairs(out) : p[1] # code}

\* C8 (as claimed): a click on the checkbox of a commodity no entry selects emits a
\* sectors list with code:100 for it in addition to the entries of the list
\* before; a click on the checkbox of a commodity an entry selects (so the second
\* click) emits a list without its code that still contains every other entry of
\* the list before (entries with an empty code, which select nothing, aside).
C8_Original ==
    [][(emitted' # Undef /\ Val(emitted').handler = "checkbox")
       => LET code == Val(Val(emitted').target).code
              out == Val(emitted').sectors
              was == \E e \in EntriesOf(gridConfig.sectors) : e[1] = code
          IN  /\ out # Undef
              /\ \A e \in EntriesOf(gridConfig.sectors) :
                    (e[1] # code /\ e[1] # "") => e \in EntriesOf(out)
              /\ ~was => <<code, "100">> \in EntriesOf(out)
              /\ was => \A o \in EntriesOf(out) : o[1] # code]_vars

\* C8 (amended): a click on the checkbox of a commodity no entry selects emits a
\* sectors list with code:100 for it, and the merged configuration selects it; a
\* click on the checkbox of a commodity an entry selects (so the second click)
\* emits a list without its code.  Either list selects every other non-empty code
\* selected before, and no further one, with the factor read for it before, each
\* written once as code:factor.
C8_ToggleAddsThenRemoves ==
    [][(emitted' # Undef /\ Val(emitted').handler = "checkbox")
       => LET code == Val(Val(emitted').target).code
              out == Val(emitted').sectors
              was == \E e \in EntriesOf(gridConfig.sectors) : e[1] = code
          IN  /\ out # Undef
              /\ OthersKept(gridConfig.sectors, code, out)
              /\ \A i, j \in 1..Len(Val(out)) :
                    /\ Len(Val(out)[i]) = 2
                    /\ Val(out)[i][1] # ""
                    /\ i # j => Val(out)[i][1] # Val(out)[j][1]
              /\ ~was => /\ <<code, "100">> \in EntriesOf(out)
                         /\ \E e \in EntriesOf(gridConfig'.sectors) : e[1] = code
              /\ was => \A o \in EntriesOf(out) : o[1] # code]_vars

\* C8 witness: the checkbox of commodity C, which only a click selects, was
\* clicked again while other entries were selected.
C8_Witness ==
    /\ emitted # Undef
    /\ Val(emitted).handler = "checkbox"
    /\ Val(Val(emitted).target) = [code |-> "C", selected |-> TRUE]
    /\ Val(emitted).sectors # Some(<<>>)
    /\ \A o \in EntriesOf(Val(emitted).sectors) : o[1] # "C"

\* --------------------------------------- handleUpdate with pending fetches
\* IndustryList.handleUpdate is an async function: it runs to its next await, and
\* the calls of other handlers run while a fetch is pending.  A call waits at
\*   "calc"        line 86,  await calculate(this.model, config)
\*   "sectors"     line 90,  await this.model.singleRegionSectors()
\*   "findDemand"  line 96,  await this.model.findDemand(config)
\*   "demand"      line 97,  await this.model.demand(demandID)
\*   "aggregate"   line 104, await this.model.sectors()
\*   "indicators"  line 117, await this.syncIndicators(config)
\* and ends "done" after ReactDOM.render or "rejected" when a fetch rejected.
Waiting == {"calc", "sectors", "findDemand", "demand", "aggregate", "indicators"}

\* A faulty variant of AfterSectors: a call that calculated nothing returns
\* without a render.
AfterSectorsNoRender(dem, c, needsCalc) ==
    IF ~needsCalc THEN "returned"
    ELSE IF c.showvalues /\ (dem = Undef \/ needsCalc) THEN "findDemand" ELSE "indicators"

\* Lines 94-95: where the call waits next once the result and the sectors are set.
AfterSectors(dem, c, needsCalc) ==
    IF c.showvalues /\ (dem = Undef \/ needsCalc) THEN "findDemand" ELSE "indicators"

\* Lines 88-92: where the call waits next once the calculation is through.
AfterCalc(res, dem, c, needsCalc) ==
    IF res = Undef THEN "sectors" ELSE AfterSectors(dem, c, needsCalc)

\* What the steps of a call leave alone.
StepFrame ==
    UNCHANGED <<modelSectors, mdata, sorter, searchTerm, gridConfig, naicsAttr,
                dataNaics, selector>>

\* Lines 73-86: the call starts and runs to its first await.
StartCall(t, c) ==
    LET needsCalc == needsCalculation(config, result # Undef, c)
        own == ownConfig(c, naicsAttr)
    IN  /\ tasks[t].pc = "idle"
        /\ t > 1 => tasks[t - 1].pc # "idle"
        /\ config' = Some(own.fields)
        /\ handed' = <<Handed(c, own)>>
        /\ calcInvoked' = needsCalc
        /\ tasks' = [tasks EXCEPT ![t] =
              [pc |-> IF needsCalc THEN "calc" ELSE AfterCalc(result, demand, c, needsCalc),
               config |-> Some(c), needsCalc |-> needsCalc, values |-> Undef]]
        /\ emitted' = Undef
        /\ UNCHANGED <<result, demand, indicators, wsectors, rendered>>

\* A configuration is delivered to the industry list.
Start(t, c) == StartCall(t, c) /\ StepFrame

\* A faulty variant of ResolveCalc: the result of a calculation is dropped when the
\* configuration of the widget is no longer the one of the call.
ResolveCalcIfCurrent(t) ==
    LET c == Val(tasks[t].config)
        current == CalcFields(Val(config)) = CalcFields(c)
    IN  /\ tasks[t].pc = "calc"
        /\ result' = IF current THEN Some(calculate(c)) ELSE result
        /\ tasks' = [tasks EXCEPT ![t].pc =
                        AfterCalc(result', demand, c, tasks[t].needsCalc)]
        /\ UNCHANGED <<config, demand, indicators, wsectors, rendered, calcInvoked,
                       emitted, handed>>
        /\ StepFrame

\* Line 86: the calculation resolves and the result is held.
ResolveCalc(t) ==
    LET c == Val(tasks[t].config)
    IN  /\ tasks[t].pc = "calc"
        /\ result' = Some(calculate(c))
        /\ tasks' = [tasks EXCEPT ![t].pc =
                        AfterCalc(Some(calculate(c)), demand, c, tasks[t].needsCalc)]
        /\ UNCHANGED <<config, demand, indicators, wsectors, rendered, calcInvoked,
                       emitted, handed>>
        /\ StepFrame

\* Lines 90-91: the sectors resolve.
ResolveSectors(t) ==
    /\ tasks[t].pc = "sectors"
    /\ wsectors' = Some(singleRegionSectors(modelSectors))
    /\ tasks' = [tasks EXCEPT ![t].pc =
                    AfterSectors(demand, Val(tasks[t].config), tasks[t].needsCalc)]
    /\ UNCHANGED <<config, result, demand, indicators, rendered, calcInvoked,
                   emitted, handed>>
    /\ StepFrame

\* Line 96: the demand id resolves.
ResolveFindDemand(t) ==
    /\ tasks[t].pc = "findDemand"
    /\ tasks' = [tasks EXCEPT ![t].pc = "demand"]
    /\ UNCHANGED <<config, result, demand, indicators, wsectors, rendered,
                   calcInvoked, emitted, handed>>
    /\ StepFrame

\* Lines 97-104: the demand vector resolves; with a vector this.demand is set to {}
\* and the call waits for the sectors, without one the demand is left as it is.
ResolveDemand(t) ==
    /\ tasks[t].pc = "demand"
    /\ \E found \in BOOLEAN :
          IF found
          THEN /\ demand' = Some(NoDemandEntries)
               /\ tasks' = [tasks EXCEPT
                     ![t].pc = "aggregate",
                     ![t].values = Some(DemandVector(findDemand(Val(tasks[t].config))))]
          ELSE /\ demand' = demand
               /\ tasks' = [tasks EXCEPT ![t].pc = "indicators"]
    /\ UNCHANGED <<config, result, indicators, wsectors, rendered, calcInvoked,
                   emitted, handed>>
    /\ StepFrame

\* Lines 104-113: the sectors resolve and the amounts are added into this.demand,
\* the object that is held at that time.
ResolveAggregate(t) ==
    /\ tasks[t].pc = "aggregate"
    /\ demand' = Some(AggregateDemand(Val(tasks[t].values), modelSectors, Val(demand)))
    /\ tasks' = [tasks EXCEPT ![t].pc = "indicators"]
    /\ UNCHANGED <<config, result, indicators, wsectors, rendered, calcInvoked,
                   emitted, handed>>
    /\ StepFrame

\* A faulty variant of ResolveIndicators: the call assigns its configuration to the
\* widget once more before it renders.
ResolveIndicatorsAssignsConfig(t) ==
    /\ tasks[t].pc = "indicators"
    /\ tasks' = [tasks EXCEPT ![t].pc = "done"]
    /\ config' = Some(ownConfig(Val(tasks[t].config), naicsAttr).fields)
    /\ LET indicators1 == Some(syncIndicators(Val(tasks[t].config)))
       IN  /\ indicators' = indicators1
           /\ rendered' = Some(Render(Val(config'), result, wsectors, indicators1,
                                      demand, sorter, searchTerm, modelSectors, mdata))
    /\ UNCHANGED <<result, demand, wsectors, calcInvoked, emitted, handed>>
    /\ StepFrame

\* Lines 117-121: the indicators resolve and the component is rendered from the
\* fields the widget holds at that time.
ResolveIndicators(t) ==
    /\ tasks[t].pc = "indicators"
    /\ tasks' = [tasks EXCEPT ![t].pc = "done"]
    /\ LET indicators1 == Some(syncIndicators(Val(tasks[t].config)))
       IN  /\ indicators' = indicators1
           /\ rendered' = Some(Render(Val(config), result, wsectors, indicators1,
                                      demand, sorter, searchTerm, modelSectors, mdata))
    /\ UNCHANGED <<config, result, demand, wsectors, calcInvoked, emitted, handed>>
    /\ StepFrame

\* A fetch of the model rejects: the await throws and nothing catches it.
\* syncIndicators fetches nothing in a view without mosaic (lines 149-151).
CanReject(t) ==
    /\ tasks[t].pc \in Waiting
    /\ tasks[t].pc = "indicators" => isMember("mosaic", Val(tasks[t].config).view)
\* A faulty variant of Reject: the rejection is caught and an empty list is rendered.
RejectCaught(t) ==
    /\ CanReject(t)
    /\ tasks' = [tasks EXCEPT ![t].pc = "rejected"]
    /\ rendered' = Some([rows |-> <<>>, page |-> 0, pageCount |-> 0, failed |-> FALSE])
    /\ UNCHANGED <<config, result, demand, indicators, wsectors,
                   calcInvoked, emitted, handed>>
    /\ StepFrame
Reject(t) ==
    /\ CanReject(t)
    /\ tasks' = [tasks EXCEPT ![t].pc = "rejected"]
    /\ UNCHANGED <<config, result, demand, indicators, wsectors, rendered,
                   calcInvoked, emitted, handed>>
    /\ StepFrame

\* The fetch a call waits for resolves.
Resolve(t) ==
    \/ ResolveCalc(t)
    \/ ResolveSectors(t)
    \/ ResolveFindDemand(t)
    \/ ResolveDemand(t)
    \/ ResolveAggregate(t)
    \/ ResolveIndicators(t)

\* The configurations delivered while fetches are pending.
AsyncConfigs ==
    {[BaseConfig EXCEPT !.view = v, !.perspective = p, !.showvalues = s] :
        v \in {{"ranking"}, {"mosaic"}}, p \in Perspectives, s \in BOOLEAN}

InitAsync ==
    /\ modelSectors = [k \in SectorIds |-> k]
    /\ mdata = FixedData
    /\ gridConfig = GridBaseConfig
    /\ dataNaics = Undef
    /\ Constructed

NextAsync ==
    \/ \E t \in TaskIds : \E c \in AsyncConfigs : Start(t, c)
    \/ \E t \in TaskIds : Resolve(t)
    \/ \E t \in TaskIds : Reject(t)

SpecAsync == InitAsync /\ [][NextAsync]_vars

\* ---------------------------------------------------------- matrix selector
Matrices == {"D", "U", "RD", "RU"}

\* matrixOf(config)
matrixOf(c) ==
    IF c = Undef \/ Val(c).perspective = "undefined" THEN "RU"
    ELSE IF Val(c).perspective = "direct"
         THEN (IF NoAnalysis(Val(c).analysis) THEN "D" ELSE "RD")
         ELSE (IF NoAnalysis(Val(c).analysis) THEN "U" ELSE "RU")

\* A faulty variant of update: the matrices D and U leave the analysis type as it is.
updateKeepsAnalysis(c, matrix) ==
    LET conf == IF c = Undef THEN spread(EmptyConfig) ELSE spread(Val(c))
    IN  IF matrix = Undef THEN conf
        ELSE setField(IF Val(matrix) \in {"RD", "RU"} /\ NoAnalysis(conf.fields.analysis)
                      THEN setField(conf, "analysis", "Consumption") ELSE conf,
                      "perspective",
                      IF Val(matrix) \in {"D", "RD"} THEN "direct" ELSE "final")

\* update(config, matrix): the configuration object it returns.
update(c, matrix) ==
    LET conf == IF c = Undef THEN spread(EmptyConfig) ELSE spread(Val(c))
    IN  IF matrix = Undef THEN conf
        ELSE IF Val(matrix) \in {"D", "U"}
        THEN setField(setField(conf, "analysis", "null"), "perspective",
                      IF Val(matrix) = "D" THEN "direct" ELSE "final")
        ELSE setField(IF NoAnalysis(conf.fields.analysis)
                      THEN setField(conf, "analysis", "Consumption") ELSE conf,
                      "perspective",
                      IF Val(matrix) = "RD" THEN "direct" ELSE "final")

\* What the steps of the matrix selector leave alone.
SelectorFrame ==
    UNCHANGED <<modelSectors, mdata, config, result, demand, indicators, wsectors,
                sorter, searchTerm, rendered, calcInvoked, gridConfig, tasks,
                naicsAttr, dataNaics>>

\* MatrixSelector.handleUpdate(config): the component is rendered with the matrix
\* of the configuration; its onChange keeps the configuration.
SelectorUpdate(c) ==
    /\ selector' = Some([selected |-> matrixOf(Some(c)), config |-> c])
    /\ handed' = <<[before |-> c, after |-> c]>>
    /\ emitted' = Undef
    /\ SelectorFrame

\* Component onChange, line 30: this.fireChange(update(config, m)).
SelectorChange(m) ==
    /\ selector # Undef
    /\ LET conf == update(Some(Val(selector).config), Some(m))
       IN  /\ emitted' = Some([NoChange EXCEPT !.widget = "matrix-selector",
                                               !.handler = "onChange",
                                               !.config = Some(conf.fields)])
           /\ handed' = <<Handed(Val(selector).config, conf)>>
    /\ UNCHANGED selector
    /\ SelectorFrame

\* ------------------------------------------------------ every update renders
\* The configurations delivered in the specification with fairness: a mosaic
\* view that calculates and shows the demand, the same for the other
\* perspective without the demand, and a view without mosaic.
LiveConfigs ==
    {[BaseConfig EXCEPT !.showvalues = TRUE],
     [BaseConfig EXCEPT !.perspective = "final"],
     [BaseConfig EXCEPT !.view = {"ranking"}, !.showvalues = TRUE]}

\* The page delivers a configuration to its widgets, the industry list and the
\* matrix selector, one after the other: each handler runs to its first await.
Deliver(t, c) ==
    /\ StartCall(t, c)
    /\ selector' = Some([selected |-> matrixOf(Some(c)), config |-> c])
    /\ UNCHANGED <<modelSectors, mdata, sorter, searchTerm, gridConfig, naicsAttr,
                   dataNaics>>

NextLive ==
    \/ \E t \in TaskIds : \E c \in LiveConfigs : Deliver(t, c)
    \/ \E t \in TaskIds : Resolve(t)
    \/ \E t \in TaskIds : Reject(t)

\* The steps Resolve(t) and Reject(t) as they show on tasks: the call leaves the
\* await it waits at.
Settle(t) ==
    /\ tasks[t].pc \in Waiting
    /\ \E pc \in (Waiting \cup {"done", "rejected"}) \ {tasks[t].pc} :
       \E values \in {tasks[t].values,
                       Some(DemandVector(findDemand(Val(tasks[t].config))))} :
          tasks' = [tasks EXCEPT ![t].pc = pc, ![t].values = values]

\* Every fetch is settled in the end: it resolves or it rejects.
SpecLive ==
    /\ InitAsync
    /\ [][NextLive]_vars
    /\ \A t \in TaskIds : WF_tasks(Settle(t))

\* C11: every call of IndustryList.handleUpdate that has started comes to its
\* render unless one of its fetches rejects, whether it calculates or not; and the
\* matrix selector renders the configuration in the step that delivers it.
C11_UpdateRenders ==
    /\ \A t \in TaskIds :
          (tasks[t].pc # "idle") ~> (tasks[t].pc \in {"done", "rejected"})
    /\ [][(\E t \in TaskIds : tasks[t].pc = "idle" /\ tasks'[t].pc # "idle")
            => selector' = Some([selected |-> matrixOf(Some(handed'[1].before)),
                                 config |-> handed'[1].before])]_vars

\* C11 witness: a call that calculated and a later call that did not have both
\* rendered, and the matrix selector has rendered.
C11_Witness ==
    /\ tasks[1].pc = "done" /\ tasks[1].needsCalc
    /\ tasks[2].pc = "done" /\ ~tasks[2].needsCalc
    /\ rendered # Undef
    /\ selector # Undef

\* ------------------------------------------------------------------- export
\* DownloadSection.onDownload, lines 578-580: the ranking that is exported.  The
\* download section is shown when config.showdownload is set, a flag that nothing
\* else reads; the configurations of the model are taken with it set.
exportRanking(res, wsec, inds, order, data) ==
    IF res # Undef
    THEN getRanking(Val(res), order, Val(inds), data)
    ELSE [i \in 1..Len(Val(wsec)) |-> [sector |-> Sector(Val(wsec)[i]), rank |-> 0]]

\* Line 592 (JSON) and line 615 (CSV): the codes of the exported sectors, in order.
exportSectors(res, wsec, inds, order, data) ==
    LET ranking == exportRanking(res, wsec, inds, order, data)
    IN  [i \in 1..Len(ranking) |-> ranking[i].sector.code]

\* Lines 614-626: the cells of the CSV row of a ranked sector, each with the
\* column it belongs to.
RECURSIVE indicatorCells(_, _, _, _)
indicatorCells(res, inds, sector, data) ==
    IF inds = <<>> THEN <<>>
    ELSE <<[column |-> Head(inds).code,
            value |-> ResultScale(res) * data[Head(inds).code][sector.id]]>>
         \o indicatorCells(res, Tail(inds), sector, data)
csvRow(res, inds, dem, r, data) ==
    <<[column |-> "sector code", value |-> r.sector.code],
      [column |-> "sector name", value |-> r.sector.name]>>
    \o (IF dem # Undef
        THEN <<[column |-> "demand", value |-> Val(dem)[r.sector.code]]>> ELSE <<>>)
    \o (IF res # Undef /\ inds # Undef
        THEN indicatorCells(Val(res), Val(inds), r.sector, data)
             \o <<[column |-> "ranking", value |-> r.rank]>>
        ELSE <<>>)

\* C12 (as claimed): the exported sectors are the sectors of the rendered rows, in
\* the order of the rows.
C12_ExportIsVisible ==
    (rendered # Undef /\ ~Val(rendered).failed)
        => exportSectors(result, wsectors, indicators, modelSectors, mdata)
             = [i \in 1..Len(Val(rendered).rows) |-> Val(rendered).rows[i].code]

\* The columns of a CSV row, in the order written.
rowColumns(cells) == [i \in 1..Len(cells) |-> cells[i].column]

\* C13 (as claimed): the CSV header and every data row have the same columns, in
\* the order sector code, sector name, demand (only when demand values are held),
\* one column per indicator, ranking (only when indicator results are present).
C13_CsvColumns ==
    rendered # Undef =>
        LET header == csvHeader(result, indicators, demand)
            ranking == exportRanking(result, wsectors, indicators, modelSectors, mdata)
            resultsPresent == result # Undef /\ Len(Val(indicators)) > 0
        IN  /\ \A i \in 1..Len(ranking) :
                 rowColumns(csvRow(result, indicators, demand, ranking[i], mdata)) = header
            /\ header = <<"sector code", "sector name">>
                        \o (IF demand # Undef THEN <<"demand">> ELSE <<>>)
                        \o (IF resultsPresent
                            THEN indicatorColumns(Val(indicators)) \o <<"ranking">>
                            ELSE <<>>)

\* The part of C13 that holds of every state: header and rows agree.
CsvRowsMatchHeader ==
    rendered # Undef =>
        \A i \in 1..Len(exportRanking(result, wsectors, indicators, modelSectors, mdata)) :
            rowColumns(csvRow(result, indicators, demand,
                              exportRanking(result, wsectors, indicators,
                                            modelSectors, mdata)[i], mdata))
              = csvHeader(result, indicators, demand)

\* ---------------------------------------------------- asynchronous properties
\* C14 (as claimed): with showvalues set and no demand values held, the rows are
\* rendered, each with an empty demand cell, and rendering raises no error.
C14_NoDemandRendersBlank ==
    (rendered # Undef /\ Val(config).showvalues /\ demand = Undef)
        => /\ ~Val(rendered).failed
           /\ Len(Val(rendered).rows) > 0
           /\ \A i \in 1..Len(Val(rendered).rows) : Val(rendered).rows[i].demand = Undef

\* The fields of the widget that a call of handleUpdate assigns, and what is shown.
WidgetFields == <<config, result, wsectors, demand, indicators, rendered>>

\* C15: a fetch that rejects ends the call of handleUpdate with that rejection: the
\* step assigns no field and renders nothing, and the call takes no further step
\* (the fetch is not tried again, nothing is rendered for that update later).
C15_RejectionPropagates ==
    [][\A t \in TaskIds :
         /\ (tasks[t].pc \in Waiting /\ tasks'[t].pc = "rejected")
               => (WidgetFields' = WidgetFields /\ emitted' = emitted)
         /\ tasks[t].pc = "rejected" => tasks'[t] = tasks[t]]_vars

\* C15 witness: a call was rejected after its calculation had resolved, and nothing
\* has been rendered.
C15_Witness ==
    \E t \in TaskIds :
        /\ tasks[t].pc = "rejected"
        /\ tasks[t].needsCalc
        /\ result # Undef
        /\ rendered = Undef

\* C16: the calculation of a call that resolves is held as the result, whatever
\* calls were started in between; so with two overlapping calls that both
\* calculate, the calculation that resolves last stays, and when that is the one
\* of the earlier call the result held and rendered is of the earlier configuration
\* while config is the later one (the state of C16_Witness).
C16_LateCalcOverwrites ==
    [][\A t \in TaskIds :
         (tasks[t].pc = "calc" /\ tasks'[t].pc \notin {"calc", "rejected"})
            => result' = Some(calculate(Val(tasks[t].config)))]_vars

\* C16 witness: both calls calculated and have rendered; the result held and
\* rendered is the one of the first call, whose calculation fields differ from
\* those of config, which is the configuration of the second call.
C16_Witness ==
    /\ tasks[1].pc = "done" /\ tasks[2].pc = "done"
    /\ tasks[1].needsCalc /\ tasks[2].needsCalc
    /\ config = Some(ownConfig(Val(tasks[2].config), naicsAttr).fields)
    /\ result = Some(calculate(Val(tasks[1].config)))
    /\ Val(result).from # CalcFields(Val(config))
    /\ rendered = Some(Render(Val(config), result, wsectors, indicators, demand,
                              sorter, searchTerm, modelSectors, mdata))

\* ------------------------------------------------------ commodity scales
\* C17 (as claimed): the scaling value of every commodity and every scale of an
\* emitted sectors list is a number within 0..500.
C17_ScalesInRange ==
    /\ \A k \in SectorIds :
          Commodity(gridConfig, k).value \in SliderMin..SliderMax
    /\ (emitted # Undef /\ Val(emitted).sectors # Undef)
          => \A i \in 1..Len(Val(Val(emitted).sectors)) :
                parseInt(Val(Val(emitted).sectors)[i][2]) \in SliderMin..SliderMax

\* ------------------------------------------------- configuration objects
\* The values of the data-naics attribute: absent, empty, one code, two codes
\* with blanks around them.
NaicsAttrs == {Undef, Some(<<"">>), Some(<<"11">>), Some(<<" 11", "22 ">>)}

\* The constructor's MutationObserver, lines 53-66: the data-naics attribute of the
\* mount element has become attr.
observerConfig(current, attr) ==
    LET own == IF current # Undef THEN spread(Val(current)) ELSE spread(EmptyConfig)
    IN  setField(own, "naics", IF AttrTruthy(attr) THEN Some(splitTrim(attr)) ELSE Undef)
NaicsMutation(attr) ==
    LET own == observerConfig(config, attr)
    IN  /\ dataNaics' = attr
        /\ handleUpdateBody(own.fields)
        /\ handed' = (IF config # Undef THEN <<Handed(Val(config), own)>> ELSE <<>>)
                     \o <<Handed(own.fields, ownConfig(own.fields, naicsAttr))>>
        /\ emitted' = Undef

\* The configurations delivered to the industry list and to the matrix selector.
ObjectConfigs ==
    {[BaseConfig EXCEPT !.perspective = p, !.analysis = a] :
        p \in Perspectives, a \in Analyses}
    \cup {[BaseConfig EXCEPT !.naics = Some(<<"33">>)]}

InitObjects ==
    /\ modelSectors = [k \in SectorIds |-> k]
    /\ mdata = FixedData
    /\ gridConfig = GridBaseConfig
    /\ dataNaics \in NaicsAttrs
    /\ Constructed

NextObjects ==
    \/ \E c \in ObjectConfigs : Update(c)
    \/ \E attr \in NaicsAttrs : NaicsMutation(attr)
    \/ \E c \in ObjectConfigs : SelectorUpdate(c)
    \/ \E m \in Matrices : SelectorChange(m)

SpecObjects == InitObjects /\ [][NextObjects]_vars

\* C18 (as claimed): a handled mutation of data-naics leaves config as it was except
\* for naics, which is the list of the trimmed codes of the attribute's value, and
\* which is absent when the attribute is empty or removed.
C18_NaicsFollowsAttribute ==
    [][dataNaics' # dataNaics
        => config' = Some([(IF config # Undef THEN Val(config) ELSE EmptyConfig)
                              EXCEPT !.naics = IF AttrTruthy(dataNaics')
                                               THEN Some(splitTrim(dataNaics'))
                                               ELSE Undef])]_vars

\* C19: a configuration object handed to the industry list, to its data-naics
\* observer or to the matrix selector's update is the same after the call as
\* before, and the configuration that update returns equals the one it was given
\* on every field other than analysis and perspective.
C19_ConfigNeverMutated ==
    /\ \A i \in 1..Len(handed) : handed[i].after = handed[i].before
    /\ (emitted # Undef /\ Val(emitted).widget = "matrix-selector")
          => \A f \in (DOMAIN BaseConfig) \ {"analysis", "perspective"} :
                Val(Val(emitted).config)[f] = Val(selector).config[f]

\* C19 witness: update has returned a configuration that differs from the one it
\* was given in analysis and perspective, in a widget whose observer has handled a
\* mutation of data-naics and whose config holds codes.
C19_Witness ==
    /\ emitted # Undef /\ Val(emitted).widget = "matrix-selector"
    /\ Val(Val(emitted).config).analysis # Val(selector).config.analysis
    /\ Val(Val(emitted).config).perspective # Val(selector).config.perspective
    /\ handed = <<[before |-> Val(selector).config, after |-> Val(selector).config]>>
    /\ config # Undef /\ Val(config).naics # Undef
    /\ dataNaics # naicsAttr

\* ------------------------------------------------------------ demand cells
\* The demand cell of the sector with the given code for a demand vector: blank for
\* an amount of zero (or a missing one), the amount otherwise.
SectorOfCode(code) == CHOOSE k \in SectorIds : Sector(k).code = code
cellOfVector(vector, code) ==
    IF vector[SectorOfCode(code)] = 0 THEN Undef ELSE Some(vector[SectorOfCode(code)])

\* C20 (as claimed): with showvalues set and demand values held, once every call
\* has rendered there is a demand vector of the model of which every sector with
\* a zero or missing amount has no entry in the demand map and a blank cell, and
\* every other sector is rendered with its amount.
C20_DemandCells ==
    (/\ \A t \in TaskIds : tasks[t].pc \in {"idle", "done"}
     /\ rendered # Undef
     /\ Val(config).showvalues
     /\ demand # Undef)
        => \E c \in AsyncConfigs :
              LET vector == DemandVector(findDemand(c))
              IN  /\ \A k \in SectorIds : Val(demand)[Sector(k).code] = vector[k]
                  /\ Len(Val(rendered).rows) = NumSectors
                  /\ \A i \in 1..Len(Val(rendered).rows) :
                        Val(rendered).rows[i].demand
                          = cellOfVector(vector, Val(rendered).rows[i].code)

\* ------------------------------------------------------------ held demand
\* C21 (as claimed): with calls that each complete before the next starts, when
\* the current configuration has showvalues set the held demand values are the
\* aggregation of the demand vector that findDemand resolves for it.
C21_DemandOfCurrentConfig ==
    (rendered # Undef /\ Val(config).showvalues)
        => demand = Some(AggregateDemand(DemandVector(findDemand(Val(config))),
                                         modelSectors, NoDemandEntries))

\* --------------------------------------------------------- row selection
\* naics.toBEA(code): the sector code of a NAICS code, undefined for a code that
\* maps to no sector.  Two NAICS codes map to the sector A.
toBEA(code) ==
    CASE code = "11" -> Some("A")
      [] code = "22" -> Some("A")
      [] code = "33" -> Some("B")
      [] OTHER -> Undef

\* codes.indexOf(code) on a sectors list, whose entries are strings split at ':':
\* the position of the first entry that is the code itself, 0 when there is none.
indexOf(codes, code) ==
    IF \E i \in 1..Len(codes) : codes[i] = <<code>>
    THEN CHOOSE i \in 1..Len(codes) :
            codes[i] = <<code>> /\ \A j \in 1..(i - 1) : codes[j] # <<code>>
    ELSE 0
\* codes.splice(idx, 1)
splice(codes, idx) ==
    [i \in 1..(Len(codes) - 1) |-> IF i < idx THEN codes[i] ELSE codes[i + 1]]

\* Row, lines 399-414: whether the row of the sector is shown as selected.
rowSelected(sectors, naics, sector) ==
    IF sectors # Undef THEN indexOf(Val(sectors), sector.code) > 0
    ELSE IF naics # Undef
         THEN \E i \in 1..Len(Val(naics)) : toBEA(Val(naics)[i]) = Some(sector.code)
         ELSE FALSE

\* Row.onSelect, lines 436-443: the sector codes of the NAICS codes, without the
\* codes that map to no sector and, for a selected row, without the row's code.
RECURSIVE naicsCodes(_, _, _)
naicsCodes(naics, selected, sector) ==
    IF naics = <<>> THEN <<>>
    ELSE LET code == toBEA(Head(naics))
         IN  (IF code = Undef \/ (selected /\ code = Some(sector.code))
              THEN <<>> ELSE << <<Val(code)>> >>)
             \o naicsCodes(Tail(naics), selected, sector)

\* Row.onSelect, lines 417-445: the sectors list that a click on the row emits.
onSelect(sectors, naics, sector) ==
    LET selected == rowSelected(sectors, naics, sector)
    IN  IF sectors = Undef /\ naics = Undef THEN << <<sector.code>> >>
        ELSE IF sectors # Undef
        THEN (IF selected
              THEN splice(Val(sectors), indexOf(Val(sectors), sector.code))
              ELSE Append(Val(sectors), <<sector.code>>))
        ELSE (IF selected THEN <<>> ELSE << <<sector.code>> >>)
             \o naicsCodes(Val(naics), selected, sector)

\* Whether a sectors list holds an entry for the code, with or without a scale.
HasCode(codes, code) == \E i \in 1..Len(codes) : codes[i][1] = code

\* C22 (as claimed): a sector that the commodity grid has emitted as selected is
\* shown as selected by its row in the industry list under the merged
\* configuration, and a click on that row emits a sectors list without it.
C22_SharedSelection ==
    (emitted # Undef /\ Val(emitted).widget = "iogrid" /\ Val(emitted).sectors # Undef)
        => \A k \in SectorIds :
              HasCode(Val(Val(emitted).sectors), Sector(k).code)
                 => /\ rowSelected(gridConfig.sectors, Undef, Sector(k))
                    /\ ~HasCode(onSelect(gridConfig.sectors, Undef, Sector(k)),
                                Sector(k).code)

\* ------------------------------------------------- matrix and configuration
\* The configurations update and matrixOf are applied to: a missing one, the
\* empty one, and every perspective (none included) with every analysis type
\* (none and null included).
MatrixInputs ==
    {Undef, Some(EmptyConfig)}
    \cup {Some([BaseConfig EXCEPT !.perspective = p, !.analysis = a, !.showvalues = s]) :
             p \in Perspectives \cup {"undefined"},
             a \in Analyses \cup {"null", "Production"},
             s \in BOOLEAN}

\* update(config, matrix) is applied to a configuration and a matrix; what it
\* returns is kept with its arguments.
MatrixSelect(c, m) ==
    /\ emitted' = Some([NoChange EXCEPT
                           !.widget = "matrix-selector",
                           !.handler = "update",
                           !.target = Some([config |-> c, matrix |-> m]),
                           !.config = Some(update(c, Some(m)).fields)])
    /\ handed' = IF c = Undef THEN <<>> ELSE <<Handed(Val(c), update(c, Some(m)))>>
    /\ UNCHANGED selector
    /\ SelectorFrame

\* A configuration is delivered to the matrix selector, which shows its matrix,
\* and the industry list calculates for it.
MatrixDeliver(c) ==
    /\ selector' = Some([selected |-> matrixOf(Some(c)), config |-> c])
    /\ result' = Some(calculate(c))
    /\ calcInvoked' = TRUE
    /\ emitted' = Undef
    /\ handed' = <<>>
    /\ UNCHANGED <<modelSectors, mdata, config, demand, indicators, wsectors, sorter,
                   searchTerm, rendered, gridConfig, tasks, naicsAttr, dataNaics>>

InitMatrix ==
    /\ modelSectors = [k \in SectorIds |-> k]
    /\ mdata = FixedData
    /\ gridConfig = GridBaseConfig
    /\ dataNaics = Undef
    /\ Constructed

NextMatrix ==
    \/ \E c \in MatrixInputs : \E m \in Matrices : MatrixSelect(c, m)
    \/ \E c \in MatrixInputs \ {Undef} : MatrixDeliver(Val(c))

SpecMatrix == InitMatrix /\ [][NextMatrix]_vars

\* The analysis type of an optional configuration.
analysisOf(c) == IF c = Undef THEN "undefined" ELSE Val(c).analysis

\* C23: for every configuration c, a missing one included, and every matrix m,
\* matrixOf(update(c, m)) = m and update(update(c, m), m) = update(c, m); RD and RU
\* keep an analysis type that is present and set Consumption when there is none,
\* D and U leave none.
C23_UpdateSelectsMatrix ==
    (emitted # Undef /\ Val(emitted).handler = "update")
        => LET c == Val(Val(emitted).target).config
               m == Val(Val(emitted).target).matrix
               out == Val(emitted).config
           IN  /\ matrixOf(out) = m
               /\ update(out, Some(m)).fields = Val(out)
               /\ m \in {"RD", "RU"}
                     => Val(out).analysis = IF NoAnalysis(analysisOf(c))
                                            THEN "Consumption" ELSE analysisOf(c)
               /\ m \in {"D", "U"} => NoAnalysis(Val(out).analysis)

\* C23 witness: D was selected for a configuration of the final perspective with
\* an analysis type, which update has cleared.
C23_Witness ==
    /\ emitted # Undef /\ Val(emitted).handler = "update"
    /\ Val(Val(emitted).target).matrix = "D"
    /\ Val(Val(emitted).target).config # Undef
    /\ Val(Val(Val(emitted).target).config).analysis = "Production"
    /\ Val(Val(Val(emitted).target).config).perspective = "final"
    /\ Val(Val(emitted).config).analysis = "null"
    /\ Val(Val(emitted).config).perspective = "direct"

\* C24 (as claimed): the matrix the selector shows for a configuration is the one
\* the industry list computes from: plain D exactly for D, plain U exactly for U,
\* a calculation with a demand vector exactly for RD and RU.
C24_SelectorMatchesCalculation ==
    (selector # Undef /\ result # Undef
       /\ Val(result).from = CalcFields(Val(selector).config))
        => /\ Val(result).matrix = "D" <=> Val(selector).selected = "D"
           /\ Val(result).matrix = "U" <=> Val(selector).selected = "U"
           /\ Val(result).matrix = "calc" <=> Val(selector).selected \in {"RD", "RU"}

\* ------------------------------------------------------ overlapping calls
\* C25 (as claimed): once all overlapping calls have completed, the demand map
\* holds for each code the sum of the amounts of one demand vector over the
\* sectors with that code: no amount is added twice.
C25_NoAmountAddedTwice ==
    (/\ \A t \in TaskIds : tasks[t].pc = "done"
     /\ demand # Undef)
        => \E c \in AsyncConfigs :
              Val(demand) = AggregateDemand(DemandVector(findDemand(c)),
                                            modelSectors, NoDemandEntries)

\* The overlapping calls of a widget whose mount element carries a data-naics
\* attribute or none: configurations with and without codes of their own.
NaicsAsyncConfigs ==
    {[BaseConfig EXCEPT !.perspective = p, !.showvalues = TRUE] : p \in Perspectives}
    \cup {[BaseConfig EXCEPT !.showvalues = TRUE, !.naics = Some(<<"33">>)],
          [BaseConfig EXCEPT !.view = {"ranking"}]}

InitAsyncNaics ==
    /\ modelSectors = [k \in SectorIds |-> k]
    /\ mdata = FixedData
    /\ gridConfig = GridBaseConfig
    /\ dataNaics \in {Undef, Some(<<" 11", "22 ">>)}
    /\ Constructed

NextAsyncNaics ==
    \/ \E t \in TaskIds : \E c \in NaicsAsyncConfigs : Start(t, c)
    \/ \E t \in TaskIds : Resolve(t)
    \/ \E t \in TaskIds : Reject(t)

SpecAsyncNaics == InitAsyncNaics /\ [][NextAsyncNaics]_vars

\* The call that was started last, 0 before the first call.
LastStarted ==
    IF \E t \in TaskIds : tasks[t].pc # "idle"
    THEN CHOOSE t \in TaskIds :
            tasks[t].pc # "idle" /\ \A u \in TaskIds : tasks[u].pc # "idle" => u <= t
    ELSE 0

\* C26: at every point, whatever fetches are pending and in whatever order they
\* resolve, config has the fields of the configuration of the call of handleUpdate
\* that was started last, with naics taken from the initial data-naics attribute
\* when that configuration has none.
C26_ConfigOfLastCall ==
    IF LastStarted = 0 THEN config = Undef
    ELSE LET c == Val(tasks[LastStarted].config)
         IN  config = Some([c EXCEPT !.naics =
                               IF c.naics = Undef /\ naicsAttr # Undef
                               THEN Some([i \in 1..Len(Val(naicsAttr)) |->
                                             trim(Val(naicsAttr)[i])])
                               ELSE c.naics])

\* C26 witness: the first call has rendered while the second, started later with
\* another configuration that has no naics, still waits; config is the second
\* configuration with the codes of the initial attribute.
C26_Witness ==
    /\ tasks[1].pc = "done"
    /\ tasks[2].pc \in Waiting
    /\ CalcFields(Val(tasks[1].config)) # CalcFields(Val(tasks[2].config))
    /\ Val(tasks[2].config).naics = Undef
    /\ Val(config).naics = Some(<<"11", "22">>)
    /\ Val(config).perspective = Val(tasks[2].config).perspective

\* ------------------------------------------------------------- row clicks
\* Row.onSelect, lines 417-446: a click on the row of sector k fires the change of
\* the sectors list.
RowClick(k) ==
    /\ rendered # Undef
    /\ LET c == Val(config)
       IN  fireChange([NoChange EXCEPT
               !.handler = "onSelect",
               !.target = Some([code |-> Sector(k).code,
                                selected |-> rowSelected(c.sectors, c.naics, Sector(k))]),
               !.sectors = Some(onSelect(c.sectors, c.naics, Sector(k)))])

\* The configurations the rows start from: a sectors list of up to MaxEntries
\* bare codes, duplicates included, or none with NAICS codes, of which two map
\* to one sector and one to none.
RowCodes == { <<"A">>, <<"B">> }
RowSectorLists ==
    {Undef} \cup {Some(l) : l \in UNION {[1..n -> RowCodes] : n \in 0..MaxEntries}}
RowNaics == {Undef, Some(<<"11", "22">>), Some(<<"33", "99">>)}
RowConfigs ==
    {[BaseConfig EXCEPT !.view = {"ranking"}, !.sectors = l, !.naics = n] :
        l \in RowSectorLists, n \in RowNaics}

InitRows ==
    /\ modelSectors = [k \in SectorIds |-> k]
    /\ mdata = FixedData
    /\ gridConfig = GridBaseConfig
    /\ dataNaics = Undef
    /\ Constructed

\* The first configuration is delivered and the rows are rendered.
RowsUpdate == config = Undef /\ \E c \in RowConfigs : Update(c)

NextRows ==
    \/ RowsUpdate
    \/ \E k \in SectorIds : RowClick(k)

SpecRows == InitRows /\ [][NextRows]_vars

\* C27 (as claimed): a click on a row shown as not selected emits a sectors list
\* with the code of the row, a click on a row shown as selected emits one without
\* it, and under the merged configuration the row is shown the other way round.
C27_RowClickToggles ==
    (emitted # Undef /\ Val(emitted).handler = "onSelect")
        => LET target == Val(Val(emitted).target)
               sector == Sector(SectorOfCode(target.code))
           IN  /\ HasCode(Val(Val(emitted).sectors), target.code) = ~target.selected
               /\ rowSelected(Val(config).sectors, Val(config).naics, sector)
                    = ~target.selected

\* -------------------------------------------------------------- paginator
\* Paginator, lines 695-749: the links in the order shown, each with its label and
\* the page it stands for; the entry of the current page is no link.
paginatorLinks(page, pageCount) ==
    LET start == IF page > 3 THEN page - 2 ELSE 1
        end == IF start + 4 > pageCount THEN pageCount ELSE start + 4
    IN  (IF page > 1 THEN <<[label |-> "Previous", page |-> page - 1]>> ELSE <<>>)
        \o [i \in 1..(end - start + 1) |->
              [label |-> IF start + i - 1 = page THEN "current" ELSE "number",
               page |-> start + i - 1]]
        \o (IF page < pageCount THEN <<[label |-> "Next", page |-> page + 1]>> ELSE <<>>)

\* What the paginator shows for a total and a configuration.
paginatorView(total, c) ==
    [rows |-> <<>>, failed |-> FALSE, total |-> total,
     page |-> paginatorPage(total, c),
     pageCount |-> paginatorPageCount(total, c),
     links |-> paginatorLinks(paginatorPage(total, c), paginatorPageCount(total, c))]

\* The totals and pages the paginator is rendered with: enough rows for more
\* pages than the five numbered entries, and pages before and past them.
MaxTotal == 8
PaginatorTotals == 0..MaxTotal
PaginatorPages == {Undef} \cup {Some(n) : n \in 0..(MaxTotal + 1)}

PaginatorFrame ==
    UNCHANGED <<modelSectors, mdata, result, demand, indicators, wsectors, sorter,
                searchTerm, calcInvoked, gridConfig, tasks, naicsAttr, dataNaics,
                selector, handed>>

\* The paginator is rendered for a total of rows and a configuration.
PaginatorShow(total, c) ==
    /\ config' = Some(c)
    /\ rendered' = Some(paginatorView(total, c))
    /\ emitted' = Undef
    /\ PaginatorFrame

\* goTo(nextPage), lines 697-699: a click on one of the links; the page merges the
\* change and the paginator is rendered again.
PaginatorClick ==
    /\ rendered # Undef
    /\ \E i \in 1..Len(Val(rendered).links) :
          LET link == Val(rendered).links[i]
              change == [NoChange EXCEPT !.handler = "goTo", !.page = Some(link.page)]
          IN  /\ link.label # "current"
              /\ emitted' = Some(change)
              /\ config' = Some(Merge(Val(config), change))
              /\ rendered' = Some(paginatorView(Val(rendered).total,
                                                Merge(Val(config), change)))
    /\ PaginatorFrame

InitPaginator ==
    /\ modelSectors = [k \in SectorIds |-> k]
    /\ mdata = FixedData
    /\ gridConfig = GridBaseConfig
    /\ dataNaics = Undef
    /\ Constructed

NextPaginator ==
    \/ \E total \in PaginatorTotals : \E n \in Counts : \E p \in PaginatorPages :
          PaginatorShow(total, [BaseConfig EXCEPT !.count = n, !.page = p])
    \/ PaginatorClick

SpecPaginator == InitPaginator /\ [][NextPaginator]_vars

\* The positions of the links with one of the labels.
LinksLabelled(links, labels) == {i \in 1..Len(links) : links[i].label \in labels}

\* C28: the current page is within 1..pageCount when there is a page; at most 5
\* numbered entries are shown, the current page among them when there is a page;
\* Previous is shown exactly when page > 1 and Next exactly when page < pageCount;
\* every link goes to, and every click emits, a page within 1..pageCount; with
\* count unset or -1 nothing is shown.
C28_PaginatorLinks ==
    rendered # Undef =>
        LET page == Val(rendered).page
            pageCount == Val(rendered).pageCount
            links == Val(rendered).links
        IN  /\ pageCount >= 1 => page \in 1..pageCount
            /\ Cardinality(LinksLabelled(links, {"current", "number"})) <= 5
            /\ pageCount >= 1
                  => \E i \in LinksLabelled(links, {"current"}) : links[i].page = page
            /\ (LinksLabelled(links, {"Previous"}) # {}) <=> (page > 1)
            /\ (LinksLabelled(links, {"Next"}) # {}) <=> (page < pageCount)
            /\ \A i \in LinksLabelled(links, {"Previous", "number", "Next"}) :
                  links[i].page \in 1..pageCount
            /\ (emitted # Undef /\ Val(emitted).handler = "goTo")
                  => Val(Val(emitted).page) \in 1..pageCount
            /\ (Val(config).count = Undef \/ Val(config).count = Some(-1))
                  => links = <<>>

\* C28 witness: a click has led to page 5 of 8, with Previous, the entries 3 to 7
\* and Next shown.
C28_Witness ==
    /\ rendered # Undef
    /\ emitted # Undef /\ Val(emitted).handler = "goTo"
    /\ Val(rendered).pageCount = 8
    /\ Val(rendered).page = 5
    /\ Len(Val(rendered).links) = 7
    /\ Val(rendered).links[2].page = 3

\* ------------------------------------------------------ emitted selection
\* C29: the sectors list that fireSelectionChange emits parses to the map it was
\* written from: every selected code is in it exactly once as code:scale, no
\* empty code is in it, and the selected commodities other than the one acted on
\* are in it with the code and the scale they had.
C29_EmittedSelectionRoundTrips ==
    [][(emitted' # Undef /\ Val(emitted').widget = "iogrid"
          /\ Val(emitted').sectors # Undef)
        => \A out \in {Val(Val(emitted').sectors)} :
           \A before \in {selectionOf(gridConfig)} :
           \A target \in {Val(Val(emitted').target).code} :
               /\ sectorsOf(selectionOf([sectors |-> Some(out)])) = out
               /\ \A i, j \in 1..Len(out) : out[i][1] = out[j][1] => i = j
               /\ \A i \in 1..Len(out) : Len(out[i]) = 2 /\ out[i][1] # ""
               /\ \A code \in Keys(before) \ {target, ""} :
                     \E i \in 1..Len(out) :
                        out[i] = <<code, NumText(ValueOf(before, code))>>
               /\ \A i \in 1..Len(out) :
                     out[i][1] # target => out[i][1] \in Keys(before)]_vars

\* C29 witness: the slider of A was moved in a grid configured with A and with B
\* at 50%; the list emitted holds A with the new scale and B with 50.
C29_Witness ==
    /\ emitted # Undef
    /\ Val(emitted).handler = "slider"
    /\ Val(Val(emitted).target).code = "A"
    /\ Val(emitted).sectors = Some(<< <<"A", "500">>, <<"B", "50">> >>)

\* ------------------------------------------------------ grid page changes
\* C30: whatever the configuration of the grid, a call of onPageChange without
\* parameters, or with the page and the page size that are current (page 1 and
\* size 10 when the configuration has none), emits nothing, and every other call
\* emits one change.
C30_PageChangeOnlyOnChange ==
    \A p \in GridPageParams :
        LET currentPage == IF gridConfig.page \in {Undef, Some(0)}
                           THEN 1 ELSE Val(gridConfig.page)
            currentSize == IF gridConfig.count \in {Undef, Some(0)}
                           THEN 10 ELSE Val(gridConfig.count)
            same == p # Undef /\ Val(p).page = currentPage /\ Val(p).pageSize = currentSize
        IN  (onPageChange(gridConfig, p) = Undef) <=> (p = Undef \/ same)

\* C30 witness: the grid is on page 2 with 20 rows a page, set by earlier
\* changes, and the last call of onPageChange has emitted nothing (no commodity
\* is selected, so every other handler would have emitted).
C30_Witness ==
    /\ gridConfig.sectors = Undef
    /\ gridConfig.page = Some(2)
    /\ gridConfig.count = Some(20)
    /\ emitted = Undef
====
